---------------------------- MODULE Spec2Model ----------------------------
(***************************************************************************)
(* Room/device booking backend (Fastify + Prisma): the booking handlers of *)
(* src/backend/src/app.ts over the relational store of the migrations,     *)
(* and the page of the React front end (App.tsx) that calls them.          *)
(*                                                                         *)
(* Every `await` of a handler is a point where other requests and the      *)
(* clock may move, so each handler is a chain of steps: the synchronous    *)
(* prefix (sampling `now`, the future-time check), each store query, and   *)
(* the store write.  Time is an integer number of clock units; an ISO      *)
(* date string is modelled by the decimal string of its instant.           *)
(***************************************************************************)
EXTENDS Integers, FiniteSets, Sequences, TLC

VARIABLES clock, devices, auditories, bookings, nextId, req, reply, ui

vars == <<clock, devices, auditories, bookings, nextId, req, reply, ui>>

---------------------------------------------------------------------------
(* Bounds of the model *)

MaxTime == 2
MaxBookings == 2
NumSlots == 2
DayLength == 2

Times == 0..MaxTime
Slots == 1..NumSlots
BookingIds == 1..MaxBookings

\* Slot 1 serves any request; the other slots serve POST requests only,
\* which keeps two PUT bodies from multiplying the state space.
PutSlots == {1}

---------------------------------------------------------------------------
(* Values of the JavaScript runtime *)

\* An optional body field that the request does not carry.
Undefined == "<undefined>"

\* The time value of an Invalid Date.
NaN == -1

\* JavaScript truthiness of an optional string: undefined and "" are falsy.
Truthy(s) == s # Undefined /\ s # ""

\* The date strings and the instant each denotes.
Instant == [ s \in { ToString(t) : t \in Times } |->
               CHOOSE t \in Times : ToString(t) = s ]

\* new Date(string): the instant the string denotes, or an Invalid Date.
NewDate(s) == IF s \in DOMAIN Instant THEN Instant[s] ELSE NaN

DateLe_Strict(a, b) == a # NaN /\ b # NaN /\ a < b

\* Date <= Date: both operands are converted to numbers; any comparison
\* with NaN is false.
DateLe(a, b) == a # NaN /\ b # NaN /\ a <= b

\* Date.prototype.toLocaleTimeString: the time of day, the date is dropped.
toLocaleTimeString(t) == ToString(t % DayLength)

\* The detail of a 409: the text and the time of day the room is busy until.
BusyUntil(endTime) == "busy until " \o toLocaleTimeString(endTime)

---------------------------------------------------------------------------
(* The store *)

DeviceIds == <<"d1">>
AuditoryIds == <<"a1", "a2">>

\* The catalog every booking scenario starts from: one device, two rooms.
DeviceRows == { [id |-> "d1", name |-> "projector"] }
AuditoryRows == { [id |-> "a1", name |-> "101", capacity |-> 30],
                  [id |-> "a2", name |-> "102", capacity |-> 20] }

DeviceOf(id) == CHOOSE d \in devices : d.id = id
AuditoryOf(id) == CHOOSE a \in auditories : a.id = id

\* Booking_deviceId_fkey and Booking_auditoryId_fkey
ForeignKeysHold(deviceId, auditoryId) ==
    /\ \E d \in devices : d.id = deviceId
    /\ \E a \in auditories : a.id = auditoryId

\* include: { device: true, auditory: true }
Expand(b) ==
    [id |-> b.id, deviceId |-> b.deviceId, auditoryId |-> b.auditoryId,
     startTime |-> b.startTime, endTime |-> b.endTime,
     device |-> DeviceOf(b.deviceId), auditory |-> AuditoryOf(b.auditoryId)]

FindUnique_NoWhere(id) == bookings

\* where: { id }
FindUnique(id) == { b \in bookings : b.id = id }

ActiveBookings_AnyAuditory(auditoryId, now) ==
    { b \in bookings : b.endTime > now }

ActiveBookings_Lt(auditoryId, now) ==
    { b \in bookings : b.auditoryId = auditoryId /\ b.endTime < now }

ActiveBookings_AfterNext(auditoryId, now) ==
    { b \in bookings : b.auditoryId = auditoryId /\ b.endTime > now + 1 }

ActiveBookings_Gte(auditoryId, now) ==
    { b \in bookings : b.auditoryId = auditoryId /\ b.endTime >= now }

\* where: { auditoryId, endTime: { gt: now } }
ActiveBookings(auditoryId, now) ==
    { b \in bookings : b.auditoryId = auditoryId /\ b.endTime > now }

ConflictingBookings_NoExclusion(auditoryId, now, id) ==
    { b \in bookings : b.auditoryId = auditoryId /\ b.endTime > now }

\* where: { auditoryId: targetAuditoryId, endTime: { gt: now }, id: { not: id } }
ConflictingBookings(auditoryId, now, id) ==
    { b \in bookings : b.auditoryId = auditoryId /\ b.endTime > now /\ b.id # id }

---------------------------------------------------------------------------
(* Requests in flight and responses *)

Idle == [op |-> "none", pc |-> "idle", id |-> 0, deviceId |-> Undefined,
         auditoryId |-> Undefined, endTime |-> Undefined, now |-> 0,
         targetAuditoryId |-> Undefined]

\* No response; `body` holds the row a response carries, `list` the array.
NoReply == [op |-> "none", status |-> 0, problem |-> {}, body |-> {},
            list |-> << >>]

Title(status) ==
    CASE status = 400 -> "Bad Request"
      [] status = 404 -> "Not Found"
      [] status = 409 -> "Conflict"
      [] OTHER -> "Internal Server Error"

\* reply.code(status).type('application/problem+json').send({...})
Problem(op, status, detail) ==
    [op |-> op, status |-> status,
     problem |-> { [type |-> "about:blank", title |-> Title(status),
                    status |-> status, detail |-> detail, instance |-> op] },
     body |-> {}, list |-> << >>]

\* reply.code(status).send(row)
Success(op, status, rows) ==
    [op |-> op, status |-> status, problem |-> {}, body |-> rows,
     list |-> << >>]

ErrorHandler_NotFound(op, message) == Problem(op, 404, message)

\* A rejected store call reaches setErrorHandler: no statusCode, so 500.
ErrorHandler(op, message) == Problem(op, 500, message)

\* The state of the page (App.tsx): the loaded bookings, the booking form,
\* and the submission in flight with the list its handler closed over.
\* useState([]) and useState({ devId: "", audId: "", end: "" }).
EmptyForm == [devId |-> "", audId |-> "", end |-> ""]

UiInit == [bookings |-> << >>, bookingForm |-> EmptyForm,
           pc |-> "idle", captured |-> << >>, alert |-> ""]

InFlight(op) == { s \in Slots : req[s].op = op }

AllIdle == \A s \in Slots : req[s].pc = "idle"

---------------------------------------------------------------------------
(* Initial state *)

Init ==
    /\ clock = 0
    /\ devices = DeviceRows
    /\ auditories = AuditoryRows
    /\ bookings = {}
    /\ nextId = 1
    /\ req = [s \in Slots |-> Idle]
    /\ reply = NoReply
    /\ ui = UiInit

---------------------------------------------------------------------------
(* The clock *)

Tick ==
    /\ clock < MaxTime
    /\ clock' = clock + 1
    /\ reply' = NoReply
    /\ UNCHANGED <<devices, auditories, bookings, nextId, req>>

---------------------------------------------------------------------------
(* POST /api/bookings *)

CreateStart_QueryFirst(s, deviceId, auditoryId, endTime) ==
    /\ req[s].pc = "idle"
    /\ nextId + Cardinality(InFlight("POST")) <= MaxBookings
    /\ req' = [req EXCEPT ![s] =
                 [Idle EXCEPT !.op = "POST", !.pc = "findFirst",
                              !.deviceId = deviceId, !.auditoryId = auditoryId,
                              !.endTime = endTime, !.now = clock]]
    /\ reply' = NoReply
    /\ UNCHANGED <<clock, devices, auditories, bookings, nextId>>

\* The synchronous prefix: the body, `now`, and the future-time check.
CreateStart(s, deviceId, auditoryId, endTime) ==
    /\ req[s].pc = "idle"
    /\ nextId + Cardinality(InFlight("POST")) <= MaxBookings
    /\ LET now == clock
           endAt == NewDate(endTime)
       IN IF DateLe(endAt, now)
          THEN /\ reply' = Problem("POST", 400, "end time must be in the future")
               /\ req' = req
          ELSE /\ reply' = NoReply
               /\ req' = [req EXCEPT ![s] =
                            [Idle EXCEPT !.op = "POST", !.pc = "findFirst",
                                         !.deviceId = deviceId,
                                         !.auditoryId = auditoryId,
                                         !.endTime = endTime, !.now = now]]
    /\ UNCHANGED <<clock, devices, auditories, bookings, nextId>>

CreateFindFirst_Resampled(s) ==
    /\ req[s].op = "POST" /\ req[s].pc = "findFirst"
    /\ LET found == ActiveBookings(req[s].auditoryId, clock)
       IN IF found # {}
          THEN /\ \E activeBooking \in found :
                    reply' = Problem("POST", 409, BusyUntil(activeBooking.endTime))
               /\ req' = [req EXCEPT ![s] = Idle]
          ELSE /\ req' = [req EXCEPT ![s].pc = "create"]
               /\ reply' = NoReply
    /\ UNCHANGED <<clock, devices, auditories, bookings, nextId>>

\* prisma.booking.findFirst and the 409 answer.
CreateFindFirst(s) ==
    /\ req[s].op = "POST" /\ req[s].pc = "findFirst"
    /\ LET found == ActiveBookings(req[s].auditoryId, req[s].now)
       IN IF found # {}
          THEN /\ \E activeBooking \in found :
                    reply' = Problem("POST", 409, BusyUntil(activeBooking.endTime))
               /\ req' = [req EXCEPT ![s] = Idle]
          ELSE /\ req' = [req EXCEPT ![s].pc = "create"]
               /\ reply' = NoReply
    /\ UNCHANGED <<clock, devices, auditories, bookings, nextId>>

NewBooking_StartAtNow(r, id, timestamp) ==
    [id |-> id, deviceId |-> r.deviceId, auditoryId |-> r.auditoryId,
     startTime |-> r.now, endTime |-> NewDate(r.endTime)]

\* The row of data: { deviceId, auditoryId, endTime: endAt }: the id is
\* generated, startTime is the column default CURRENT_TIMESTAMP.
NewBooking(r, id, timestamp) ==
    [id |-> id, deviceId |-> r.deviceId, auditoryId |-> r.auditoryId,
     startTime |-> timestamp, endTime |-> NewDate(r.endTime)]

\* prisma.booking.create and the 201 answer.
CreateInsert(s) ==
    /\ req[s].op = "POST" /\ req[s].pc = "create"
    /\ LET r == req[s]
           endAt == NewDate(r.endTime)
           row == NewBooking(r, nextId, clock)
       IN IF endAt = NaN
          THEN /\ reply' = ErrorHandler("POST", "invalid date")
               /\ UNCHANGED <<bookings, nextId>>
          ELSE IF ~ForeignKeysHold(r.deviceId, r.auditoryId)
          THEN /\ reply' = ErrorHandler("POST", "foreign key constraint")
               /\ UNCHANGED <<bookings, nextId>>
          ELSE /\ bookings' = bookings \cup {row}
               /\ nextId' = nextId + 1
               /\ reply' = Success("POST", 201, {Expand(row)})
    /\ req' = [req EXCEPT ![s] = Idle]
    /\ UNCHANGED <<clock, devices, auditories>>

---------------------------------------------------------------------------
(* PUT /api/bookings/:id *)

\* The synchronous prefix: params, body, `now`, and the future-time check.
UpdateStart(s, id, deviceId, auditoryId, endTime) ==
    /\ req[s].pc = "idle"
    /\ LET now == clock
       IN IF Truthy(endTime) /\ DateLe(NewDate(endTime), now)
          THEN /\ reply' = Problem("PUT", 400, "end time must be in the future")
               /\ req' = req
          ELSE /\ reply' = NoReply
               /\ req' = [req EXCEPT ![s] =
                            [Idle EXCEPT !.op = "PUT", !.pc = "findUnique",
                                         !.id = id, !.deviceId = deviceId,
                                         !.auditoryId = auditoryId,
                                         !.endTime = endTime, !.now = now]]
    /\ UNCHANGED <<clock, devices, auditories, bookings, nextId>>

UpdateFindUnique_AlwaysChecks(s) ==
    /\ req[s].op = "PUT" /\ req[s].pc = "findUnique"
    /\ LET r == req[s]
           found == FindUnique(r.id)
       IN IF found = {}
          THEN /\ reply' = Problem("PUT", 404, "booking not found")
               /\ req' = [req EXCEPT ![s] = Idle]
          ELSE LET booking == CHOOSE b \in found : TRUE
                   targetAuditoryId ==
                       IF Truthy(r.auditoryId) THEN r.auditoryId
                       ELSE booking.auditoryId
               IN /\ req' = [req EXCEPT
                      ![s].targetAuditoryId = targetAuditoryId,
                      ![s].pc = "findFirst"]
                  /\ reply' = NoReply
    /\ UNCHANGED <<clock, devices, auditories, bookings, nextId>>

\* prisma.booking.findUnique, the 404 answer, and the effective auditory.
UpdateFindUnique(s) ==
    /\ req[s].op = "PUT" /\ req[s].pc = "findUnique"
    /\ LET r == req[s]
           found == FindUnique(r.id)
       IN IF found = {}
          THEN /\ reply' = Problem("PUT", 404, "booking not found")
               /\ req' = [req EXCEPT ![s] = Idle]
          ELSE LET booking == CHOOSE b \in found : TRUE
                   targetAuditoryId ==
                       IF Truthy(r.auditoryId) THEN r.auditoryId
                       ELSE booking.auditoryId
               IN /\ req' = [req EXCEPT
                      ![s].targetAuditoryId = targetAuditoryId,
                      ![s].pc = IF Truthy(r.auditoryId) \/ Truthy(r.endTime)
                                THEN "findFirst" ELSE "update"]
                  /\ reply' = NoReply
    /\ UNCHANGED <<clock, devices, auditories, bookings, nextId>>

\* prisma.booking.findFirst excluding the booking itself, and the 409 answer.
UpdateFindFirst(s) ==
    /\ req[s].op = "PUT" /\ req[s].pc = "findFirst"
    /\ LET r == req[s]
           found == ConflictingBookings(r.targetAuditoryId, r.now, r.id)
       IN IF found # {}
          THEN /\ \E conflicting \in found :
                    reply' = Problem("PUT", 409, BusyUntil(conflicting.endTime))
               /\ req' = [req EXCEPT ![s] = Idle]
          ELSE /\ req' = [req EXCEPT ![s].pc = "update"]
               /\ reply' = NoReply
    /\ UNCHANGED <<clock, devices, auditories, bookings, nextId>>

Patch_EveryField(b, r) ==
    [b EXCEPT !.deviceId = IF Truthy(r.deviceId) THEN r.deviceId ELSE @,
              !.auditoryId = IF Truthy(r.auditoryId) THEN r.auditoryId ELSE @,
              !.endTime = NewDate(r.endTime)]

\* The data object: only the truthy fields of the body.
Patch(b, r) ==
    [b EXCEPT !.deviceId = IF Truthy(r.deviceId) THEN r.deviceId ELSE @,
              !.auditoryId = IF Truthy(r.auditoryId) THEN r.auditoryId ELSE @,
              !.endTime = IF Truthy(r.endTime) THEN NewDate(r.endTime) ELSE @]

UpdateWrite_Upsert(s) ==
    /\ req[s].op = "PUT" /\ req[s].pc = "update"
    /\ LET r == req[s]
           found == FindUnique(r.id)
           blank == [id |-> r.id, deviceId |-> "d1",
                     auditoryId |-> r.targetAuditoryId,
                     startTime |-> clock, endTime |-> MaxTime]
           old == IF found = {} THEN blank ELSE CHOOSE b \in found : TRUE
           updated == [Patch(old, r) EXCEPT !.endTime = IF @ = NaN THEN MaxTime ELSE @]
       IN /\ bookings' = (bookings \ {old}) \cup {updated}
          /\ reply' = Success("PUT", 200, {Expand(updated)})
    /\ req' = [req EXCEPT ![s] = Idle]
    /\ UNCHANGED <<clock, devices, auditories, nextId>>

\* prisma.booking.update and the 200 answer.
UpdateWrite(s) ==
    /\ req[s].op = "PUT" /\ req[s].pc = "update"
    /\ LET r == req[s]
           found == FindUnique(r.id)
       IN IF Truthy(r.endTime) /\ NewDate(r.endTime) = NaN
          THEN /\ reply' = ErrorHandler("PUT", "invalid date")
               /\ bookings' = bookings
          ELSE IF found = {}
          THEN /\ reply' = ErrorHandler("PUT", "record to update not found")
               /\ bookings' = bookings
          ELSE LET old == CHOOSE b \in found : TRUE
                   updated == Patch(old, r)
               IN IF ~ForeignKeysHold(updated.deviceId, updated.auditoryId)
                  THEN /\ reply' = ErrorHandler("PUT", "foreign key constraint")
                       /\ bookings' = bookings
                  ELSE /\ bookings' = (bookings \ {old}) \cup {updated}
                       /\ reply' = Success("PUT", 200, {Expand(updated)})
    /\ req' = [req EXCEPT ![s] = Idle]
    /\ UNCHANGED <<clock, devices, auditories, nextId>>

---------------------------------------------------------------------------
(* DELETE /api/bookings/:id *)

BookingDelete_ActiveOnly(id) ==
    /\ LET found == { b \in FindUnique(id) : b.endTime > clock }
       IN IF found = {}
          THEN /\ reply' = ErrorHandler("DELETE", "record to delete does not exist")
               /\ bookings' = bookings
          ELSE /\ bookings' = bookings \ found
               /\ reply' = Success("DELETE", 204, {})
    /\ UNCHANGED <<clock, devices, auditories, nextId, req>>

BookingDelete_KeepsRow(id) ==
    /\ LET found == FindUnique(id)
       IN IF found = {}
          THEN reply' = ErrorHandler("DELETE", "record to delete does not exist")
          ELSE reply' = Success("DELETE", 204, {})
    /\ UNCHANGED <<clock, devices, auditories, bookings, nextId, req>>

\* prisma.booking.delete by id and the 204 answer; a missing row is rejected.
BookingDelete(id) ==
    /\ LET found == FindUnique(id)
       IN IF found = {}
          THEN /\ reply' = ErrorHandler("DELETE", "record to delete does not exist")
               /\ bookings' = bookings
          ELSE /\ bookings' = bookings \ found
               /\ reply' = Success("DELETE", 204, {})
    /\ UNCHANGED <<clock, devices, auditories, nextId, req>>

---------------------------------------------------------------------------
(* GET /api/bookings: one store call *)

FindManyBookings_Asc ==
    LET rows == { Expand(b) : b \in bookings }
    IN { list \in [1..Cardinality(rows) -> rows] :
           /\ \A i, j \in DOMAIN list : i # j => list[i] # list[j]
           /\ \A i, j \in DOMAIN list : i < j => list[i].startTime <= list[j].startTime }

\* findMany({ include: { device: true, auditory: true },
\*            orderBy: { startTime: 'desc' } }): every row once, expanded,
\* latest start first; rows with equal startTime come in any order.
FindManyBookings ==
    LET rows == { Expand(b) : b \in bookings }
    IN { list \in [1..Cardinality(rows) -> rows] :
           /\ \A i, j \in DOMAIN list : i # j => list[i] # list[j]
           /\ \A i, j \in DOMAIN list : i < j => list[i].startTime >= list[j].startTime }

ListBookings ==
    /\ \E list \in FindManyBookings :
          reply' = [op |-> "GET", status |-> 200, problem |-> {}, body |-> {},
                    list |-> list]
    /\ UNCHANGED <<clock, devices, auditories, bookings, nextId, req>>

---------------------------------------------------------------------------
(* Request inputs *)

IdInputs == BookingIds

\* The bodies of POST /api/bookings: every room and end time with the
\* existing device, and one body each with a device id that names no row,
\* an auditory id that names no row, and an end time that is no date.
CreateBodies ==
    { [deviceId |-> "d1", auditoryId |-> a, endTime |-> e] :
        a \in {"a1", "a2"}, e \in { ToString(t) : t \in 1..MaxTime } }
    \cup { [deviceId |-> "dX", auditoryId |-> "a1", endTime |-> ToString(MaxTime)],
           [deviceId |-> "d1", auditoryId |-> "aX", endTime |-> ToString(MaxTime)],
           [deviceId |-> "d1", auditoryId |-> "a1", endTime |-> "abc"] }

PostBooking(s) ==
    \E body \in CreateBodies :
        CreateStart(s, body.deviceId, body.auditoryId, body.endTime)

\* The bodies of PUT /api/bookings/:id: every combination of an absent,
\* empty or present auditoryId with an absent, empty, valid or invalid
\* endTime, and the deviceId absent, alone, or with one of the others.
UpdateBodies ==
    { [deviceId |-> Undefined, auditoryId |-> a, endTime |-> e] :
        a \in {Undefined, "", "a1", "a2"},
        e \in { ToString(t) : t \in 1..MaxTime } \cup {Undefined, "", "abc"} }
    \cup { [deviceId |-> "d1", auditoryId |-> Undefined, endTime |-> Undefined],
           [deviceId |-> "d1", auditoryId |-> "a2", endTime |-> Undefined],
           [deviceId |-> "d1", auditoryId |-> Undefined,
            endTime |-> ToString(MaxTime)] }

PutBooking(s) ==
    \E id \in IdInputs, body \in UpdateBodies :
        UpdateStart(s, id, body.deviceId, body.auditoryId, body.endTime)

DeleteBooking == \E id \in IdInputs : BookingDelete(id)

---------------------------------------------------------------------------
(* POST /api/devices and POST /api/auditories: one store call each *)

DeviceCreate(body) ==
    /\ Cardinality(devices) < Len(DeviceIds)
    /\ LET device == [id |-> DeviceIds[Cardinality(devices) + 1],
                      name |-> body.name]
       IN /\ devices' = devices \cup {device}
          /\ reply' = Success("POST /api/devices", 201, {device})
    /\ UNCHANGED <<clock, auditories, bookings, nextId, req>>

AuditoryCreate(body) ==
    /\ Cardinality(auditories) < Len(AuditoryIds)
    /\ LET auditory == [id |-> AuditoryIds[Cardinality(auditories) + 1],
                        name |-> body.name, capacity |-> body.capacity]
       IN /\ auditories' = auditories \cup {auditory}
          /\ reply' = Success("POST /api/auditories", 201, {auditory})
    /\ UNCHANGED <<clock, devices, bookings, nextId, req>>

DeviceBodies == { [name |-> d.name] : d \in DeviceRows }
AuditoryBodies == { [name |-> a.name, capacity |-> a.capacity] : a \in AuditoryRows }

---------------------------------------------------------------------------
(* PUT and DELETE of /api/devices/:id and /api/auditories/:id: one store  *)
(* call each; a rejected call reaches setErrorHandler.                    *)

\* An optional integer field that the body does not carry.
UndefinedNumber == -1

\* The rows that reference a device or an auditory (ON DELETE RESTRICT).
BookingsOfDevice(id) == { b \in bookings : b.deviceId = id }
BookingsOfAuditory(id) == { b \in bookings : b.auditoryId = id }

\* prisma.device.update({ where: { id }, data: req.body })
DeviceUpdate(id, body) ==
    /\ LET found == { d \in devices : d.id = id }
       IN IF found = {}
          THEN /\ reply' = ErrorHandler("PUT /api/devices", "record to update not found")
               /\ devices' = devices
          ELSE LET old == CHOOSE d \in found : TRUE
                   updated == [old EXCEPT !.name =
                                  IF body.name = Undefined THEN @ ELSE body.name]
               IN /\ devices' = (devices \ {old}) \cup {updated}
                  /\ reply' = Success("PUT /api/devices", 200, {updated})
    /\ UNCHANGED <<clock, auditories, bookings, nextId, req>>

\* prisma.auditory.update({ where: { id }, data: req.body })
AuditoryUpdate(id, body) ==
    /\ LET found == { a \in auditories : a.id = id }
       IN IF found = {}
          THEN /\ reply' = ErrorHandler("PUT /api/auditories", "record to update not found")
               /\ auditories' = auditories
          ELSE LET old == CHOOSE a \in found : TRUE
                   updated == [old EXCEPT
                       !.name = IF body.name = Undefined THEN @ ELSE body.name,
                       !.capacity = IF body.capacity = UndefinedNumber
                                    THEN @ ELSE body.capacity]
               IN /\ auditories' = (auditories \ {old}) \cup {updated}
                  /\ reply' = Success("PUT /api/auditories", 200, {updated})
    /\ UNCHANGED <<clock, devices, bookings, nextId, req>>

DeviceDelete_NoRestrict(id) ==
    /\ LET found == { d \in devices : d.id = id }
       IN IF found = {}
          THEN /\ reply' = ErrorHandler("DELETE /api/devices", "record to delete does not exist")
               /\ devices' = devices
          ELSE /\ devices' = devices \ found
               /\ reply' = Success("DELETE /api/devices", 204, {})
    /\ UNCHANGED <<clock, auditories, bookings, nextId, req>>

\* prisma.device.delete({ where: { id } }) and the 204 answer.
DeviceDelete(id) ==
    /\ LET found == { d \in devices : d.id = id }
       IN IF found = {}
          THEN /\ reply' = ErrorHandler("DELETE /api/devices", "record to delete does not exist")
               /\ devices' = devices
          ELSE IF BookingsOfDevice(id) # {}
          THEN /\ reply' = ErrorHandler("DELETE /api/devices", "foreign key constraint")
               /\ devices' = devices
          ELSE /\ devices' = devices \ found
               /\ reply' = Success("DELETE /api/devices", 204, {})
    /\ UNCHANGED <<clock, auditories, bookings, nextId, req>>

\* prisma.auditory.delete({ where: { id } }) and the 204 answer.
AuditoryDelete(id) ==
    /\ LET found == { a \in auditories : a.id = id }
       IN IF found = {}
          THEN /\ reply' = ErrorHandler("DELETE /api/auditories", "record to delete does not exist")
               /\ auditories' = auditories
          ELSE IF BookingsOfAuditory(id) # {}
          THEN /\ reply' = ErrorHandler("DELETE /api/auditories", "foreign key constraint")
               /\ auditories' = auditories
          ELSE /\ auditories' = auditories \ found
               /\ reply' = Success("DELETE /api/auditories", 204, {})
    /\ UNCHANGED <<clock, devices, bookings, nextId, req>>

\* The ids of the catalog requests: every seeded row and one id naming no row.
DeviceIdInputs == {"d1", "dX"}
AuditoryIdInputs == {"a1", "a2", "aX"}

\* The bodies of the catalog updates: a new name, a new capacity.
DeviceUpdateBodies == { [name |-> "screen"] }
AuditoryUpdateBodies == { [name |-> Undefined, capacity |-> 40] }

PutDevice == \E id \in DeviceIdInputs, body \in DeviceUpdateBodies : DeviceUpdate(id, body)
PutAuditory ==
    \E id \in AuditoryIdInputs, body \in AuditoryUpdateBodies : AuditoryUpdate(id, body)
DeleteDevice == \E id \in DeviceIdInputs : DeviceDelete(id)
DeleteAuditory == \E id \in AuditoryIdInputs : AuditoryDelete(id)

---------------------------------------------------------------------------
(* The HTTP surface: the rate limit, routing, schema validation and the   *)
(* error handler in front of the route handlers                           *)

\* A JSON value that is no string and is not coerced to one (an object).
JsonObject == "<object>"

IsString(v) == v \notin {Undefined, JsonObject}

\* T.Object({ name: T.String({ minLength: 1 }) })
CreateDeviceSchema(body) == IsString(body.name) /\ body.name # ""

\* T.Object({ name: T.Optional(T.String({ minLength: 1 })) })
UpdateDeviceSchema(body) ==
    body.name = Undefined \/ (IsString(body.name) /\ body.name # "")

CreateAuditorySchema_NoMinimum(body) ==
    IsString(body.name) /\ body.name # ""

\* T.Object({ name: T.String({ minLength: 1 }), capacity: T.Integer({ minimum: 1 }) })
CreateAuditorySchema(body) ==
    /\ IsString(body.name) /\ body.name # ""
    /\ body.capacity >= 1

UpdateAuditorySchema(body) ==
    /\ body.name = Undefined \/ (IsString(body.name) /\ body.name # "")
    /\ body.capacity = UndefinedNumber \/ body.capacity >= 1

\* T.Object({ deviceId: T.String(), auditoryId: T.String(), endTime: T.String() })
CreateBookingSchema(body) ==
    IsString(body.deviceId) /\ IsString(body.auditoryId) /\ IsString(body.endTime)

\* Every field T.Optional(T.String())
UpdateBookingSchema(body) ==
    /\ body.deviceId = Undefined \/ IsString(body.deviceId)
    /\ body.auditoryId = Undefined \/ IsString(body.auditoryId)
    /\ body.endTime = Undefined \/ IsString(body.endTime)

\* reply.code(code).type('application/problem+json').send(document)
Send(op, code, document) ==
    [op |-> op, status |-> code, problem |-> {document}, body |-> {},
     list |-> << >>]

\* STATUS_CODES[status] ?? 'Error'
STATUS_CODES(status) ==
    CASE status = 400 -> "Bad Request"
      [] status = 404 -> "Not Found"
      [] status = 409 -> "Conflict"
      [] status = 429 -> "Too Many Requests"
      [] status = 500 -> "Internal Server Error"
      [] status = 503 -> "Service Unavailable"
      [] OTHER -> "Error"

\* new ValidationProblem(msg, errors, dataVar): statusCode = 400
ValidationProblem(message) == [statusCode |-> 400, message |-> message]

SetErrorHandler_Always500(op, err) ==
    LET status == IF err.statusCode # UndefinedNumber THEN err.statusCode ELSE 500
        detail == IF Truthy(err.message) THEN err.message ELSE "Unexpected error"
    IN Send(op, 500,
            [type |-> "about:blank", title |-> STATUS_CODES(status),
             status |-> status, detail |-> detail, instance |-> op])

\* setErrorHandler: the status is the error's statusCode when it is a
\* number and 500 otherwise, the detail its message or 'Unexpected error'.
SetErrorHandler(op, err) ==
    LET status == IF err.statusCode # UndefinedNumber THEN err.statusCode ELSE 500
        detail == IF Truthy(err.message) THEN err.message ELSE "Unexpected error"
    IN Send(op, status,
            [type |-> "about:blank", title |-> STATUS_CODES(status),
             status |-> status, detail |-> detail, instance |-> op])

\* The body failed its schema: schemaErrorFormatter builds the error, the
\* error handler answers, and the route handler is not called.
Rejected(op) ==
    /\ reply' = SetErrorHandler(op, ValidationProblem("validation failed"))
    /\ UNCHANGED <<clock, devices, auditories, bookings, nextId, req>>

\* setNotFoundHandler
NotFound ==
    /\ reply' = Send("GET /nowhere", 404,
                     [type |-> "about:blank", title |-> "Not Found",
                      status |-> 404, detail |-> "Route GET /nowhere not found",
                      instance |-> "GET /nowhere"])
    /\ UNCHANGED <<clock, devices, auditories, bookings, nextId, req>>

\* The routes a request may name.
Routes == {"GET", "POST"}

\* errorResponseBuilder(request, ctx): the document of the rate limit.
TooManyRequests(op) ==
    [type |-> "about:blank", title |-> "Too Many Requests", status |-> 429,
     detail |-> "Rate limit exceeded", instance |-> op]

\* The rate limit refuses the request before routing reaches the handler.
\* The plugin either sends the built document with code 429 or throws it:
\* thrown, it reaches the error handler as an object with neither
\* statusCode nor message.
RateLimited ==
    /\ \E op \in Routes :
          \/ reply' = Send(op, 429, TooManyRequests(op))
          \/ reply' = SetErrorHandler(op, [statusCode |-> UndefinedNumber,
                                           message |-> Undefined])
    /\ UNCHANGED <<clock, devices, auditories, bookings, nextId, req>>

HealthPing_OkFalse(answers) ==
    /\ reply' = Success("GET /api/health", 200, {[ok |-> answers]})
    /\ UNCHANGED <<clock, devices, auditories, bookings, nextId, req>>

\* GET /api/health: try { await $queryRaw`SELECT 1`; return { ok: true } }
\* catch { reply.code(503)... }: `answers` tells whether the ping succeeds.
HealthPing(answers) ==
    /\ IF answers
       THEN reply' = Success("GET /api/health", 200, {[ok |-> TRUE]})
       ELSE reply' = Send("GET /api/health", 503,
                          [type |-> "https://example.com/problems/dependency-unavailable",
                           title |-> "Service Unavailable", status |-> 503,
                           detail |-> "Database ping failed",
                           instance |-> "/api/health"])
    /\ UNCHANGED <<clock, devices, auditories, bookings, nextId, req>>

\* GET /api/health: the ping answers, or it fails and the handler sends 503.
Health == \E answers \in BOOLEAN : HealthPing(answers)

\* A route with a body schema: the body is validated, and only a valid
\* body reaches the handler.
PostDeviceRoute(body) ==
    IF CreateDeviceSchema(body) THEN DeviceCreate(body)
    ELSE Rejected("POST /api/devices")

PutDeviceRoute(id, body) ==
    IF UpdateDeviceSchema(body) THEN DeviceUpdate(id, body)
    ELSE Rejected("PUT /api/devices")

PostAuditoryRoute(body) ==
    IF CreateAuditorySchema(body) THEN AuditoryCreate(body)
    ELSE Rejected("POST /api/auditories")

PutAuditoryRoute(id, body) ==
    IF UpdateAuditorySchema(body) THEN AuditoryUpdate(id, body)
    ELSE Rejected("PUT /api/auditories")

PostBookingRoute_HandlerFirst(s, body) ==
    CreateStart(s, body.deviceId, body.auditoryId, body.endTime)

PostBookingRoute(s, body) ==
    IF CreateBookingSchema(body)
    THEN CreateStart(s, body.deviceId, body.auditoryId, body.endTime)
    ELSE Rejected("POST")

PutBookingRoute(s, id, body) ==
    IF UpdateBookingSchema(body)
    THEN UpdateStart(s, id, body.deviceId, body.auditoryId, body.endTime)
    ELSE Rejected("PUT")

\* A capacity below zero, as a request body may carry it.
NegativeNumber == -2

\* The bodies sent to each route: bodies that satisfy its schema, and
\* bodies that miss a required field, carry an object where a string is
\* expected, an empty name, or a capacity below 1.
RawDeviceBodies == DeviceBodies \cup { [name |-> ""], [name |-> Undefined] }

RawDeviceUpdateBodies ==
    DeviceUpdateBodies \cup { [name |-> Undefined], [name |-> ""] }

RawAuditoryBodies ==
    AuditoryBodies \cup { [name |-> "103", capacity |-> 0],
                          [name |-> "103", capacity |-> NegativeNumber],
                          [name |-> "", capacity |-> 10] }

RawAuditoryUpdateBodies ==
    AuditoryUpdateBodies \cup { [name |-> Undefined, capacity |-> 0],
                                [name |-> Undefined, capacity |-> NegativeNumber],
                                [name |-> "", capacity |-> UndefinedNumber],
                                [name |-> JsonObject, capacity |-> UndefinedNumber] }

RawCreateBookingBodies ==
    { [deviceId |-> "d1", auditoryId |-> a, endTime |-> e] :
        a \in {"a1", "a2"}, e \in {"0", ToString(MaxTime)} }
    \cup { [deviceId |-> "d1", auditoryId |-> "a1", endTime |-> Undefined],
           [deviceId |-> JsonObject, auditoryId |-> "a1",
            endTime |-> ToString(MaxTime)],
           [deviceId |-> Undefined, auditoryId |-> Undefined,
            endTime |-> Undefined] }

RawUpdateBookingBodies ==
    { [deviceId |-> Undefined, auditoryId |-> "a2", endTime |-> Undefined],
      [deviceId |-> Undefined, auditoryId |-> Undefined,
       endTime |-> ToString(MaxTime)],
      [deviceId |-> Undefined, auditoryId |-> Undefined, endTime |-> "0"],
      [deviceId |-> "d1", auditoryId |-> Undefined, endTime |-> Undefined],
      [deviceId |-> Undefined, auditoryId |-> Undefined, endTime |-> JsonObject],
      [deviceId |-> Undefined, auditoryId |-> JsonObject,
       endTime |-> ToString(MaxTime)] }

PostDevice == \E body \in RawDeviceBodies : PostDeviceRoute(body)
PostAuditory == \E body \in RawAuditoryBodies : PostAuditoryRoute(body)
PutDeviceChecked ==
    \E id \in DeviceIdInputs, body \in RawDeviceUpdateBodies : PutDeviceRoute(id, body)
PutAuditoryChecked ==
    \E id \in AuditoryIdInputs, body \in RawAuditoryUpdateBodies :
        PutAuditoryRoute(id, body)
PostBookingChecked ==
    \E body \in RawCreateBookingBodies : PostBookingRoute(1, body)
PutBookingChecked ==
    \E id \in IdInputs, body \in RawUpdateBookingBodies : PutBookingRoute(1, id, body)

---------------------------------------------------------------------------
(* Concurrent requests over the seeded catalog *)

Next ==
    \/ Tick /\ UNCHANGED ui
    \/ \E s \in Slots : PostBooking(s) /\ UNCHANGED ui
    \/ \E s \in Slots : CreateFindFirst(s) /\ UNCHANGED ui
    \/ \E s \in Slots : CreateInsert(s) /\ UNCHANGED ui
    \/ \E s \in PutSlots : PutBooking(s) /\ UNCHANGED ui
    \/ \E s \in PutSlots : UpdateFindUnique(s) /\ UNCHANGED ui
    \/ \E s \in PutSlots : UpdateFindFirst(s) /\ UNCHANGED ui
    \/ \E s \in PutSlots : UpdateWrite(s) /\ UNCHANGED ui
    \/ DeleteBooking /\ UNCHANGED ui

Spec == Init /\ [][Next]_vars

---------------------------------------------------------------------------
(* One request at a time, step by step, over the seeded catalog: between  *)
(* any two steps of the request the clock may move and a DELETE may run.  *)

NextSolo ==
    \/ Tick /\ UNCHANGED ui
    \/ AllIdle /\ PostBooking(1) /\ UNCHANGED ui
    \/ CreateFindFirst(1) /\ UNCHANGED ui
    \/ CreateInsert(1) /\ UNCHANGED ui
    \/ AllIdle /\ PutBooking(1) /\ UNCHANGED ui
    \/ UpdateFindUnique(1) /\ UNCHANGED ui
    \/ UpdateFindFirst(1) /\ UNCHANGED ui
    \/ UpdateWrite(1) /\ UNCHANGED ui
    \/ DeleteBooking /\ UNCHANGED ui

SpecSolo == Init /\ [][NextSolo]_vars

---------------------------------------------------------------------------
(* Strictly serialized requests, from the empty store: a request starts,  *)
(* and the clock moves, only while no other request is in flight, so each *)
(* handler's checks and write act as one atomic step.                     *)

InitEmpty ==
    /\ clock = 0
    /\ devices = {}
    /\ auditories = {}
    /\ bookings = {}
    /\ nextId = 1
    /\ req = [s \in Slots |-> Idle]
    /\ reply = NoReply
    /\ ui = UiInit

SerialTick == AllIdle /\ Tick
SerialPostDevice == AllIdle /\ \E body \in DeviceBodies : DeviceCreate(body)
SerialPostAuditory == AllIdle /\ \E body \in AuditoryBodies : AuditoryCreate(body)
SerialPostBooking == AllIdle /\ PostBooking(1)
SerialPutBooking == AllIdle /\ PutBooking(1)
SerialDeleteBooking == AllIdle /\ DeleteBooking

NextSerial ==
    \/ SerialTick /\ UNCHANGED ui
    \/ SerialPostDevice /\ UNCHANGED ui
    \/ SerialPostAuditory /\ UNCHANGED ui
    \/ SerialPostBooking /\ UNCHANGED ui
    \/ SerialPutBooking /\ UNCHANGED ui
    \/ SerialDeleteBooking /\ UNCHANGED ui
    \/ CreateFindFirst(1) /\ UNCHANGED ui
    \/ CreateInsert(1) /\ UNCHANGED ui
    \/ UpdateFindUnique(1) /\ UNCHANGED ui
    \/ UpdateFindFirst(1) /\ UNCHANGED ui
    \/ UpdateWrite(1) /\ UNCHANGED ui

SpecSerial == InitEmpty /\ [][NextSerial]_vars

---------------------------------------------------------------------------
(* One booking request at a time, step by step, while the catalog is      *)
(* updated and deleted from: between any two steps of the request a       *)
(* device or an auditory may be renamed or removed.  The clock stands     *)
(* still: all of it happens within one instant.                           *)

\* The bodies of the booking requests: every pair of a device id and an
\* auditory id of the catalog requests, naming a row or not (and for PUT
\* absent as well).
CatalogCreateBodies ==
    { [deviceId |-> d, auditoryId |-> a, endTime |-> ToString(MaxTime)] :
        d \in DeviceIdInputs, a \in AuditoryIdInputs }

CatalogUpdateBodies ==
    { [deviceId |-> d, auditoryId |-> a, endTime |-> Undefined] :
        d \in {Undefined} \cup DeviceIdInputs,
        a \in {Undefined} \cup AuditoryIdInputs }

CatalogPostBooking ==
    \E body \in CatalogCreateBodies :
        CreateStart(1, body.deviceId, body.auditoryId, body.endTime)

CatalogPutBooking ==
    \E id \in IdInputs, body \in CatalogUpdateBodies :
        UpdateStart(1, id, body.deviceId, body.auditoryId, body.endTime)

NextCatalog ==
    \/ AllIdle /\ CatalogPostBooking /\ UNCHANGED ui
    \/ CreateFindFirst(1) /\ UNCHANGED ui
    \/ CreateInsert(1) /\ UNCHANGED ui
    \/ AllIdle /\ CatalogPutBooking /\ UNCHANGED ui
    \/ UpdateFindUnique(1) /\ UNCHANGED ui
    \/ UpdateFindFirst(1) /\ UNCHANGED ui
    \/ UpdateWrite(1) /\ UNCHANGED ui
    \/ DeleteBooking /\ UNCHANGED ui
    \/ PutDevice /\ UNCHANGED ui
    \/ PutAuditory /\ UNCHANGED ui
    \/ DeleteDevice /\ UNCHANGED ui
    \/ DeleteAuditory /\ UNCHANGED ui

SpecCatalog == Init /\ [][NextCatalog]_vars

---------------------------------------------------------------------------
(* Creates and deletes, one request at a time and step by step, with the  *)
(* clock moving and the list being read between any two steps.            *)

NextList ==
    \/ Tick /\ UNCHANGED ui
    \/ AllIdle /\ PostBooking(1) /\ UNCHANGED ui
    \/ CreateFindFirst(1) /\ UNCHANGED ui
    \/ CreateInsert(1) /\ UNCHANGED ui
    \/ DeleteBooking /\ UNCHANGED ui
    \/ ListBookings /\ UNCHANGED ui

SpecList == Init /\ [][NextList]_vars

\* The same (creates and deletes, no update), with a clock that keeps
\* advancing up to the last instant.
SpecListFair == SpecList /\ WF_vars(Tick /\ UNCHANGED ui)

---------------------------------------------------------------------------
(* The HTTP surface from the empty store, one request at a time and step  *)
(* by step, within one instant: every route with a body validates it, and *)
(* any request may be refused by the rate limit or name no route.         *)

NextHttp ==
    \/ AllIdle /\ RateLimited /\ UNCHANGED ui
    \/ AllIdle /\ NotFound /\ UNCHANGED ui
    \/ AllIdle /\ Health /\ UNCHANGED ui
    \/ AllIdle /\ PostDevice /\ UNCHANGED ui
    \/ AllIdle /\ PostAuditory /\ UNCHANGED ui
    \/ AllIdle /\ PutDeviceChecked /\ UNCHANGED ui
    \/ AllIdle /\ PutAuditoryChecked /\ UNCHANGED ui
    \/ AllIdle /\ PostBookingChecked /\ UNCHANGED ui
    \/ CreateFindFirst(1) /\ UNCHANGED ui
    \/ CreateInsert(1) /\ UNCHANGED ui
    \/ AllIdle /\ PutBookingChecked /\ UNCHANGED ui
    \/ UpdateFindUnique(1) /\ UNCHANGED ui
    \/ UpdateFindFirst(1) /\ UNCHANGED ui
    \/ UpdateWrite(1) /\ UNCHANGED ui
    \/ DeleteBooking /\ UNCHANGED ui

SpecHttp == InitEmpty /\ [][NextHttp]_vars

---------------------------------------------------------------------------
(* The page (App.tsx): the loaded list, the room status and the booking   *)
(* form.  handleBooking awaits the answer of POST /api/bookings, so other *)
(* events of the page, the clock and other requests may come in between.  *)

\* Date.prototype.toISOString: the string that denotes the instant.
toISOString(t) == ToString(t)

\* A booking as the JSON of an answer carries it: dates as ISO strings.
ToJSON(row) ==
    [id |-> row.id, deviceId |-> row.deviceId, auditoryId |-> row.auditoryId,
     startTime |-> toISOString(row.startTime),
     endTime |-> toISOString(row.endTime),
     device |-> row.device, auditory |-> row.auditory]

ToJSONList(list) == [i \in DOMAIN list |-> ToJSON(list[i])]

checkStatus_Gte(list, audId, now) ==
    LET found == { i \in DOMAIN list :
                     /\ list[i].auditoryId = audId
                     /\ NewDate(list[i].endTime) >= now }
    IN IF found # {}
       THEN LET activeB == list[CHOOSE i \in found : \A j \in found : i <= j]
            IN [msg |-> BusyUntil(NewDate(activeB.endTime)), busy |-> TRUE]
       ELSE [msg |-> "free", busy |-> FALSE]

\* checkStatus: bookings.find(b => b.auditoryId === audId &&
\* new Date(b.endTime) > new Date()), the first such booking of the list.
checkStatus(list, audId, now) ==
    LET found == { i \in DOMAIN list :
                     /\ list[i].auditoryId = audId
                     /\ NewDate(list[i].endTime) > now }
    IN IF found # {}
       THEN LET activeB == list[CHOOSE i \in found : \A j \in found : i <= j]
            IN [msg |-> BusyUntil(NewDate(activeB.endTime)), busy |-> TRUE]
       ELSE [msg |-> "free", busy |-> FALSE]

\* What the form may hold: the device, a room, and an end that is a date,
\* or left empty.
UiForms ==
    { [devId |-> "d1", audId |-> a, end |-> e] :
        a \in {"a1", "a2"}, e \in {"", ToString(MaxTime)} }
    \cup { [devId |-> "d1", audId |-> "a1", end |-> "1"] }

\* setBookingForm({...bookingForm, ...}) of the form's fields.
setBookingForm(form) ==
    /\ ui' = [ui EXCEPT !.bookingForm = form]
    /\ reply' = NoReply
    /\ UNCHANGED <<clock, devices, auditories, bookings, nextId, req>>

\* loadData: GET /api/bookings and setBookings of the answer.
loadData ==
    /\ ListBookings
    /\ ui' = [ui EXCEPT !.bookings = ToJSONList(reply'.list)]

\* The rest of handleBooking once the answer r is there (none yet when
\* r.status = 0): if (!res.ok) throw, caught by alert(e.message); else
\* setBookings([data, ...bookings]) with the list the handler closed over,
\* and setBookingForm of the empty form.
handleBookingAnswer(u, r) ==
    IF r.status = 0 THEN u
    ELSE IF r.status \in 200..299
    THEN [u EXCEPT !.bookings = <<ToJSON(CHOOSE row \in r.body : TRUE)>> \o u.captured,
                   !.bookingForm = EmptyForm,
                   !.pc = "idle", !.captured = << >>]
    ELSE [u EXCEPT !.alert = (CHOOSE p \in r.problem : TRUE).detail,
                   !.pc = "idle", !.captured = << >>]

\* handleBooking up to the fetch: toISOString throws on an invalid date
\* (caught, alert); else the request is sent with the form's fields.
handleBooking ==
    /\ ui.pc = "idle" /\ req[1].pc = "idle"
    /\ LET form == ui.bookingForm
           end == NewDate(form.end)
           sent == [ui EXCEPT !.pc = "posting", !.captured = ui.bookings,
                              !.alert = ""]
       IN IF end = NaN
          THEN /\ ui' = [ui EXCEPT !.alert = "Invalid time value"]
               /\ reply' = NoReply
               /\ UNCHANGED <<clock, devices, auditories, bookings, nextId, req>>
          ELSE /\ PostBookingRoute(1, [deviceId |-> form.devId,
                                       auditoryId |-> form.audId,
                                       endTime |-> toISOString(end)])
               /\ ui' = handleBookingAnswer(sent, reply')

\* The steps of the request of handleBooking at the server; the answer,
\* when a step gives it, resumes handleBooking.
handleBookingFindFirst ==
    /\ ui.pc = "posting"
    /\ CreateFindFirst(1)
    /\ ui' = handleBookingAnswer(ui, reply')

handleBookingInsert ==
    /\ ui.pc = "posting"
    /\ CreateInsert(1)
    /\ ui' = handleBookingAnswer(ui, reply')

\* The page over the seeded catalog: the form is edited, the list is
\* loaded (on mount and after each deleteItem), a booking is submitted,
\* bookings are deleted, and the clock moves, in any order.
NextUi ==
    \/ Tick /\ UNCHANGED ui
    \/ \E form \in UiForms : setBookingForm(form)
    \/ loadData
    \/ handleBooking
    \/ handleBookingFindFirst
    \/ handleBookingInsert
    \/ DeleteBooking /\ UNCHANGED ui

SpecUi == Init /\ [][NextUi]_vars

---------------------------------------------------------------------------
(* The booking invariants *)

\* At the current instant no auditory holds two bookings that are active.
AtMostOneActivePerAuditory ==
    \A b1 \in bookings, b2 \in bookings :
        (b1.auditoryId = b2.auditoryId /\ b1.endTime > clock /\ b2.endTime > clock)
            => b1 = b2

IsResponse(op, status) == reply.op = op /\ reply.status = status

\* The body that the request in flight r was started with.
RequestBody(r) ==
    [deviceId |-> r.deviceId, auditoryId |-> r.auditoryId, endTime |-> r.endTime]

\* P holds of the body of every POST /api/bookings that the step starts in
\* slot s: of the one the step put in flight, read back from the slot, and
\* of every one the step may have answered at once.
WhenPostStarts(s, P(_)) ==
    /\ LET r == req'[s]
       IN \/ P(RequestBody(r))
          \/ ~CreateStart(s, r.deviceId, r.auditoryId, r.endTime)
    /\ (req[s].pc = "idle" /\ reply'.op = "POST") =>
          \A body \in CreateBodies :
              \/ P(body)
              \/ ~CreateStart(s, body.deviceId, body.auditoryId, body.endTime)

\* P holds of the id and body of every PUT /api/bookings/:id that the step
\* starts in slot s: of the one the step put in flight, read back from the
\* slot, and of every one the step may have answered at once.
WhenPutStarts(s, P(_, _)) ==
    /\ LET r == req'[s]
       IN \/ P(r.id, RequestBody(r))
          \/ ~UpdateStart(s, r.id, r.deviceId, r.auditoryId, r.endTime)
    /\ (req[s].pc = "idle" /\ reply'.op = "PUT") =>
          \A id \in IdInputs, body \in UpdateBodies :
              \/ P(id, body)
              \/ ~UpdateStart(s, id, body.deviceId, body.auditoryId, body.endTime)

\* C1: under any interleaving of concurrent POST /api/bookings requests
\* (conflict query and insert being separate store steps) no insert of a
\* create takes a store with at most one active booking per auditory to a
\* store with two active bookings in one auditory.
C1_CreateKeepsOneActivePerAuditory ==
    [][ (AtMostOneActivePerAuditory /\ \E s \in Slots : CreateInsert(s))
            => AtMostOneActivePerAuditory' ]_vars

\* C2: when requests are strictly serialized, starting from the empty store
\* and with the clock advancing between requests, every reachable state has
\* at most one booking with endTime > now per auditory.
C2_SerializedOneActivePerAuditory ==
    \A a \in auditories :
        Cardinality({ b \in bookings : b.auditoryId = a.id /\ b.endTime > clock }) <= 1

\* C2 witness: an auditory was booked again after its first booking expired,
\* and a later request for it has just been refused.
C2_Witness ==
    /\ \E b1 \in bookings, b2 \in bookings :
          /\ b1.auditoryId = b2.auditoryId
          /\ b1.endTime <= clock /\ b2.endTime > clock
    /\ reply.status = 409

\* C3: under any interleaving of PUT /api/bookings/:id requests with
\* concurrent creates or updates (lookup, conflict query and write being
\* separate store steps) no write of an update takes a store with at most one
\* active booking per auditory to one with two active bookings in an auditory.
C3_UpdateKeepsOneActivePerAuditory ==
    [][ (AtMostOneActivePerAuditory /\ \E s \in PutSlots : UpdateWrite(s))
            => AtMostOneActivePerAuditory' ]_vars

\* C7: in every reachable state, with the clock advancing between any two
\* steps of a request, every stored booking has endTime > startTime.
C7_EndAfterStart == \A b \in bookings : b.endTime > b.startTime

---------------------------------------------------------------------------
(* POST /api/bookings: the contract of each answer *)

\* The string denotes an instant, and that instant is not after t.
DenotesInstantAtOrBefore(endTime, t) ==
    endTime \in DOMAIN Instant /\ Instant[endTime] <= t

\* The string denotes an instant, and that instant is after t.
DenotesInstantAfter(endTime, t) ==
    endTime \in DOMAIN Instant /\ Instant[endTime] > t

\* C4: a POST /api/bookings whose endTime is an instant not strictly after
\* the request's now is answered 400 and leaves the booking store (and every
\* request in flight) unchanged, whatever the state of the auditory.
C4_PastEndTimeRejected ==
    [][ \A s \in Slots : WhenPostStarts(s, LAMBDA body :
            DenotesInstantAtOrBefore(body.endTime, clock)
            => ( /\ IsResponse("POST", 400)'
                 /\ bookings' = bookings /\ nextId' = nextId /\ req' = req )) ]_vars

\* C4 witness: a create was answered 400 while a booking is active.
C4_Witness ==
    /\ IsResponse("POST", 400)
    /\ \E b \in bookings : b.endTime > clock

\* C5: a POST /api/bookings whose conflict query runs while its auditory
\* holds a booking with endTime > now is answered 409, the detail renders
\* the endTime of an active booking of that same auditory, and the booking
\* store is unchanged.
C5_BusyAuditoryRefused ==
    [][ \A s \in Slots :
            ( /\ CreateFindFirst(s)
              /\ \E b \in bookings : /\ b.auditoryId = req[s].auditoryId
                                      /\ b.endTime > req[s].now )
            => ( /\ IsResponse("POST", 409)'
                 /\ \E p \in reply'.problem : \E b \in bookings :
                       /\ b.auditoryId = req[s].auditoryId
                       /\ b.endTime > req[s].now
                       /\ p.detail = "busy until " \o ToString(b.endTime % DayLength)
                 /\ bookings' = bookings /\ nextId' = nextId ) ]_vars

\* C5 witness: a create was answered 409 with the time of day of the
\* booking that keeps the auditory busy.
C5_Witness ==
    /\ IsResponse("POST", 409)
    /\ \E p \in reply.problem : \E b \in bookings :
          b.endTime > clock /\ p.detail = BusyUntil(b.endTime)

\* The insert of slot s added exactly one row, with the requested deviceId,
\* auditoryId and endTime and the given startTime, and the answer is 201
\* with that row and its device and auditory.
Created(s, startTime) ==
    \E row \in bookings' :
        /\ row \notin bookings
        /\ bookings' = bookings \cup {row}
        /\ row.deviceId = req[s].deviceId
        /\ row.auditoryId = req[s].auditoryId
        /\ req[s].endTime \in DOMAIN Instant
        /\ row.endTime = Instant[req[s].endTime]
        /\ row.startTime = startTime
        /\ IsResponse("POST", 201)'
        /\ \E e \in reply'.body :
              /\ reply'.body = {e}
              /\ e.id = row.id /\ e.deviceId = row.deviceId
              /\ e.auditoryId = row.auditoryId
              /\ e.startTime = row.startTime /\ e.endTime = row.endTime
              /\ e.device \in devices /\ e.device.id = row.deviceId
              /\ e.auditory \in auditories /\ e.auditory.id = row.auditoryId

---------------------------------------------------------------------------
(* PUT /api/bookings/:id: the contract of each answer *)

NamesBooking(id) == \E b \in bookings : b.id = id

\* C8 as stated: a PUT /api/bookings/:id for an id that names no booking
\* is answered 404 for every request body, and the store is unchanged: no
\* step of such a request answers anything else, and its lookup answers 404.
C8_MissingIdAlways404 ==
    [][ \A s \in PutSlots :
          /\ WhenPutStarts(s, LAMBDA id, body :
                ~NamesBooking(id)
                => (reply'.status \in {0, 404} /\ bookings' = bookings))
          /\ (UpdateFindUnique(s) /\ ~NamesBooking(req[s].id))
                => (IsResponse("PUT", 404)' /\ bookings' = bookings) ]_vars

\* C8 amended: a PUT /api/bookings/:id for an id that names no booking is
\* answered 404 with the store unchanged, unless the body carries a
\* non-empty endTime that denotes an instant not after the request's now: it
\* is then answered 400, before the lookup, with the store unchanged.
C8_MissingId404UnlessPastEndTime ==
    [][ \A s \in PutSlots :
          /\ WhenPutStarts(s, LAMBDA id, body :
                ~NamesBooking(id)
                => /\ bookings' = bookings
                   /\ IF DenotesInstantAtOrBefore(body.endTime, clock)
                      THEN IsResponse("PUT", 400)' /\ req' = req
                      ELSE reply'.status = 0 /\ req'[s].pc = "findUnique")
          /\ (UpdateFindUnique(s) /\ ~NamesBooking(req[s].id))
                => (IsResponse("PUT", 404)' /\ bookings' = bookings) ]_vars

\* C8 witness: an update was answered 404 while the store holds a booking.
C8_Witness == IsResponse("PUT", 404) /\ bookings # {}

\* C9: a PUT /api/bookings/:id on an existing booking with any supplied
\* (here: non-empty) endTime value that is not a strictly future instant is
\* answered 400 and leaves the booking unchanged.
C9_NotFutureEndTimeRejected ==
    [][ \A s \in PutSlots : WhenPutStarts(s, LAMBDA id, body :
            ( /\ NamesBooking(id)
              /\ body.endTime \notin {Undefined, ""}
              /\ ~DenotesInstantAfter(body.endTime, clock) )
            => (IsResponse("PUT", 400)' /\ bookings' = bookings)) ]_vars

\* Some booking other than id is active at instant now in the auditory.
OtherActiveIn(auditoryId, now, id) ==
    \E b \in bookings : b.id # id /\ b.auditoryId = auditoryId /\ b.endTime > now

\* The body carries the field with a non-empty value.
Supplied(field) == field \notin {Undefined, ""}

\* The auditoryId of the stored booking id.
AuditoryIdOf(id) == (CHOOSE b \in bookings : b.id = id).auditoryId

\* C10 as stated: a PUT /api/bookings/:id on an existing booking that
\* supplies auditoryId or endTime is answered 409, with the booking
\* unchanged, exactly when some other booking has endTime > now in the
\* effective auditory (the supplied auditoryId if given, else the booking's).
\* So such a request (its fields non-empty) facing a conflict is not answered
\* 400, its lookup leads to the conflict query, and the query answers 409
\* exactly on a conflict.
C10_ConflictExactlyWhenOtherActive ==
    [][ \A s \in PutSlots :
          /\ WhenPutStarts(s, LAMBDA id, body :
                ( /\ NamesBooking(id)
                  /\ Supplied(body.auditoryId) \/ Supplied(body.endTime)
                  /\ OtherActiveIn(IF Supplied(body.auditoryId)
                                   THEN body.auditoryId ELSE AuditoryIdOf(id),
                                   clock, id) )
                => reply'.status = 0)
          /\ ( /\ UpdateFindUnique(s)
               /\ NamesBooking(req[s].id)
               /\ Supplied(req[s].auditoryId) \/ Supplied(req[s].endTime) )
                => req'[s].pc = "findFirst"
          /\ (UpdateFindFirst(s) /\ NamesBooking(req[s].id))
                => ( (IsResponse("PUT", 409)' /\ bookings' = bookings)
                     <=> OtherActiveIn(IF Supplied(req[s].auditoryId)
                                       THEN req[s].auditoryId
                                       ELSE AuditoryIdOf(req[s].id),
                                       req[s].now, req[s].id) ) ]_vars

\* C10 amended: a PUT /api/bookings/:id on an existing booking is answered
\* 400 exactly when its endTime is non-empty and denotes an instant not
\* after now; otherwise, when its auditoryId or its endTime is non-empty, it
\* runs the conflict query and is answered 409, with the store unchanged,
\* exactly when some other booking has endTime > now in the effective
\* auditory (the non-empty auditoryId, else the booking's own); no other step
\* answers 409, and the booking being updated never conflicts with itself.
C10_ConflictExactlyWhenOtherActiveAfterValidation ==
    [][ \A s \in PutSlots :
          /\ WhenPutStarts(s, LAMBDA id, body :
                NamesBooking(id)
                => /\ bookings' = bookings
                   /\ IF DenotesInstantAtOrBefore(body.endTime, clock)
                      THEN IsResponse("PUT", 400)' /\ req' = req
                      ELSE reply'.status = 0 /\ req'[s].pc = "findUnique")
          /\ (UpdateFindUnique(s) /\ NamesBooking(req[s].id))
                => /\ reply'.status = 0 /\ bookings' = bookings
                   /\ req'[s].pc = "findFirst"
                        <=> (Supplied(req[s].auditoryId) \/ Supplied(req[s].endTime))
          /\ (UpdateFindFirst(s) /\ NamesBooking(req[s].id))
                => ( (IsResponse("PUT", 409)' /\ bookings' = bookings)
                     <=> OtherActiveIn(IF Supplied(req[s].auditoryId)
                                       THEN req[s].auditoryId
                                       ELSE AuditoryIdOf(req[s].id),
                                       req[s].now, req[s].id) )
          /\ reply'.status # 409 \/ ~UpdateWrite(s) ]_vars

\* C10 witness: an update was answered 409 while two bookings are active,
\* each alone in its auditory: the update tried to move one onto the other.
C10_Witness ==
    /\ IsResponse("PUT", 409)
    /\ \E b \in bookings, c \in bookings :
          /\ b.auditoryId # c.auditoryId
          /\ b.endTime > clock /\ c.endTime > clock

\* The body carries deviceId and neither auditoryId nor endTime.
OnlyDeviceId(body) ==
    /\ Supplied(body.deviceId)
    /\ body.auditoryId = Undefined /\ body.endTime = Undefined

\* C11: a PUT /api/bookings/:id on an existing booking whose body carries
\* only deviceId runs no conflict query (its lookup leads straight to the
\* write) and no step of it answers 409, whatever other bookings are active
\* in the booking's auditory.
C11_DeviceIdOnlySkipsConflictQuery ==
    [][ \A s \in PutSlots :
          /\ WhenPutStarts(s, LAMBDA id, body :
                OnlyDeviceId(body) => reply'.status = 0)
          /\ (req[s].op = "PUT" /\ OnlyDeviceId(req[s])) =>
                /\ ~UpdateFindFirst(s)
                /\ (UpdateFindUnique(s) /\ NamesBooking(req[s].id))
                      => (req'[s].pc = "update" /\ reply'.status = 0)
                /\ reply'.status # 409 \/ ~UpdateWrite(s) ]_vars

\* C11 witness: an update carrying only deviceId has passed its lookup and
\* stands before its write while another booking is active in the auditory
\* of the booking it names.
C11_Witness ==
    \E s \in PutSlots :
        /\ req[s].op = "PUT" /\ req[s].pc = "update"
        /\ OnlyDeviceId(req[s])
        /\ NamesBooking(req[s].id)
        /\ OtherActiveIn(AuditoryIdOf(req[s].id), clock, req[s].id)

\* C12: a PUT /api/bookings/:id answered 200 replaces exactly the row it
\* names: the row keeps its id and startTime and every field among deviceId,
\* auditoryId and endTime that the body does not carry, and every other
\* booking, device and auditory is unchanged.
C12_UpdateChangesOnlySuppliedFields ==
    [][ \A s \in PutSlots :
          (UpdateWrite(s) /\ IsResponse("PUT", 200)') =>
            \E old \in bookings, new \in bookings' :
              /\ old.id = req[s].id /\ new.id = old.id
              /\ new.startTime = old.startTime
              /\ req[s].deviceId = Undefined => new.deviceId = old.deviceId
              /\ req[s].auditoryId = Undefined => new.auditoryId = old.auditoryId
              /\ req[s].endTime = Undefined => new.endTime = old.endTime
              /\ bookings' \ {new} = bookings \ {old}
              /\ devices' = devices /\ auditories' = auditories ]_vars

\* C12 witness: an update was answered 200 with the row it wrote, and the
\* store holds another booking besides that row.
C12_Witness ==
    /\ IsResponse("PUT", 200)
    /\ \E e \in reply.body : \E b \in bookings, c \in bookings :
          b.id = e.id /\ c.id # e.id

\* C13: a DELETE /api/bookings/:id of a stored booking, active or expired,
\* removes exactly that row, leaves every other booking and every device and
\* auditory unchanged, and answers 204.
C13_DeleteRemovesExactlyThatRow ==
    [][ \A id \in IdInputs :
          (BookingDelete(id) /\ NamesBooking(id)) =>
            /\ bookings' = { b \in bookings : b.id # id }
            /\ devices' = devices /\ auditories' = auditories
            /\ IsResponse("DELETE", 204)' ]_vars

\* C13 witness: a delete was answered 204 after the clock has passed the end
\* of some stored booking, and another booking is still stored.
C13_Witness ==
    /\ IsResponse("DELETE", 204)
    /\ bookings # {}
    /\ \E b \in bookings : b.endTime <= clock

---------------------------------------------------------------------------
(* Referential integrity *)

\* Every booking names a stored device and a stored auditory.
ReferencesHold ==
    \A b \in bookings :
        /\ \E d \in devices : d.id = b.deviceId
        /\ \E a \in auditories : a.id = b.auditoryId

\* C14: every booking's deviceId and auditoryId name a stored device and
\* auditory before and after every step; so no create or update persists a
\* booking naming a missing row; and a DELETE of a device or an auditory
\* that some booking references is answered with an error and leaves the
\* devices, auditories and bookings unchanged.
C14_ReferencesAlwaysHold ==
    [][ /\ ReferencesHold /\ ReferencesHold'
        /\ \A id \in DeviceIdInputs :
              (DeviceDelete(id) /\ \E b \in bookings : b.deviceId = id)
              => /\ IsResponse("DELETE /api/devices", 500)'
                 /\ devices' = devices /\ auditories' = auditories
                 /\ bookings' = bookings
        /\ \A id \in AuditoryIdInputs :
              (AuditoryDelete(id) /\ \E b \in bookings : b.auditoryId = id)
              => /\ IsResponse("DELETE /api/auditories", 500)'
                 /\ devices' = devices /\ auditories' = auditories
                 /\ bookings' = bookings ]_vars

\* C14 witness: the delete of a device that a booking references was
\* refused, after an auditory that no booking references was deleted.
C14_Witness ==
    /\ IsResponse("DELETE /api/devices", 500)
    /\ \E p \in reply.problem : p.detail = "foreign key constraint"
    /\ \E b \in bookings : \E d \in devices : d.id = b.deviceId
    /\ Cardinality(auditories) < Cardinality(AuditoryRows)

---------------------------------------------------------------------------
(* The conflict query *)

\* C15: the conflict query of a create answers busy (409) if and only if
\* the store holds a booking with the queried auditoryId and endTime strictly
\* greater than the request's now; that of an update, if and only if the
\* store holds such a booking with an id different from the id of the
\* request; and the query changes nothing in the store.
C15_ConflictQueryExact ==
    [][ \A s \in Slots :
          /\ CreateFindFirst(s) =>
                /\ IsResponse("POST", 409)'
                      <=> \E b \in bookings : /\ b.auditoryId = req[s].auditoryId
                                              /\ b.endTime > req[s].now
                /\ IsResponse("POST", 409)' \/ reply'.status = 0
                /\ bookings' = bookings /\ nextId' = nextId
                /\ devices' = devices /\ auditories' = auditories
          /\ UpdateFindFirst(s) =>
                /\ IsResponse("PUT", 409)'
                      <=> \E b \in bookings : /\ b.auditoryId = req[s].targetAuditoryId
                                              /\ b.endTime > req[s].now
                                              /\ b.id # req[s].id
                /\ IsResponse("PUT", 409)' \/ reply'.status = 0
                /\ bookings' = bookings /\ nextId' = nextId
                /\ devices' = devices /\ auditories' = auditories ]_vars

\* C15 witness: an update has passed its conflict query and stands before
\* its write while the queried auditory holds another booking whose endTime
\* equals the request's now, and the booking it names is stored.
C15_Witness ==
    \E s \in PutSlots :
        /\ req[s].op = "PUT" /\ req[s].pc = "update"
        /\ Truthy(req[s].auditoryId) \/ Truthy(req[s].endTime)
        /\ NamesBooking(req[s].id)
        /\ \E b \in bookings : /\ b.id # req[s].id
                                /\ b.auditoryId = req[s].targetAuditoryId
                                /\ b.endTime = req[s].now

---------------------------------------------------------------------------
(* GET /api/bookings *)

\* C16: GET /api/bookings answers 200 with an array that holds every stored
\* booking, active or expired, exactly once, each with its device and its
\* auditory, in non-increasing order of startTime, and changes nothing in
\* the store.
C16_ListIsEveryBookingLatestFirst ==
    [][ ListBookings =>
          LET list == reply'.list
          IN /\ IsResponse("GET", 200)'
             /\ Len(list) = Cardinality(bookings)
             /\ \A b \in bookings :
                   \E i \in 1..Len(list) :
                     /\ list[i].id = b.id /\ list[i].deviceId = b.deviceId
                     /\ list[i].auditoryId = b.auditoryId
                     /\ list[i].startTime = b.startTime
                     /\ list[i].endTime = b.endTime
                     /\ list[i].device \in devices
                     /\ list[i].device.id = b.deviceId
                     /\ list[i].auditory \in auditories
                     /\ list[i].auditory.id = b.auditoryId
                     /\ \A j \in 1..Len(list) : list[j].id = b.id => j = i
             /\ \A i \in 1..Len(list) - 1 :
                   list[i].startTime >= list[i + 1].startTime
             /\ bookings' = bookings /\ devices' = devices
             /\ auditories' = auditories /\ nextId' = nextId ]_vars

\* C16 witness: the list was answered with two bookings, the later-started
\* and still active one first, the earlier-started and expired one second.
C16_Witness ==
    /\ IsResponse("GET", 200)
    /\ Len(reply.list) = 2
    /\ reply.list[1].startTime > reply.list[2].startTime
    /\ reply.list[1].endTime > clock
    /\ reply.list[2].endTime <= clock

---------------------------------------------------------------------------
(* Status codes and error documents *)

\* C17: every answer to POST /api/bookings has status 201, 400 or 409, and
\* every answer to PUT /api/bookings/:id has status 200, 400, 404 or 409,
\* for bodies of strings whether or not their deviceId and auditoryId name
\* stored rows.
C17_OnlyDocumentedStatuses ==
    /\ reply.op = "POST" => reply.status \in {201, 400, 409}
    /\ reply.op = "PUT" => reply.status \in {200, 400, 404, 409}

\* C18: every answer with an error status carries exactly one problem
\* document, with the fields type, title, status, detail and instance, and
\* the status field of the document equals the status code of the answer.
C18_ErrorsAreProblemDocuments ==
    reply.status >= 400 =>
        /\ Cardinality(reply.problem) = 1
        /\ \A p \in reply.problem :
              /\ {"type", "title", "status", "detail", "instance"} \subseteq DOMAIN p
              /\ p.status = reply.status

\* C18 witness: a validation error was answered by the error handler with
\* status 400 while the store holds a booking.
C18_Witness ==
    /\ reply.status = 400
    /\ \E p \in reply.problem : p.detail = "validation failed"
    /\ bookings # {}

\* The step answered 400 for the route and changed neither the store nor
\* any request slot: no handler step was taken.
RejectedBeforeHandler(op) ==
    /\ IsResponse(op, 400)'
    /\ devices' = devices /\ auditories' = auditories
    /\ bookings' = bookings /\ nextId' = nextId /\ req' = req

\* C19: a request to a route with a body schema whose body fails the schema
\* is answered 400 without the route handler running: no request is put in
\* flight, no store call is made and the store is unchanged.
C19_InvalidBodyRejectedBeforeHandler ==
    [][ /\ \A body \in RawDeviceBodies :
              \/ RejectedBeforeHandler("POST /api/devices")
              \/ CreateDeviceSchema(body) \/ ~PostDeviceRoute(body)
        /\ \A body \in RawAuditoryBodies :
              \/ RejectedBeforeHandler("POST /api/auditories")
              \/ CreateAuditorySchema(body) \/ ~PostAuditoryRoute(body)
        /\ \A id \in DeviceIdInputs, body \in RawDeviceUpdateBodies :
              \/ RejectedBeforeHandler("PUT /api/devices")
              \/ UpdateDeviceSchema(body) \/ ~PutDeviceRoute(id, body)
        /\ \A id \in AuditoryIdInputs, body \in RawAuditoryUpdateBodies :
              \/ RejectedBeforeHandler("PUT /api/auditories")
              \/ UpdateAuditorySchema(body) \/ ~PutAuditoryRoute(id, body)
        /\ \A body \in RawCreateBookingBodies :
              \/ RejectedBeforeHandler("POST")
              \/ CreateBookingSchema(body) \/ ~PostBookingRoute(1, body)
        /\ \A id \in IdInputs, body \in RawUpdateBookingBodies :
              \/ RejectedBeforeHandler("PUT")
              \/ UpdateBookingSchema(body) \/ ~PutBookingRoute(1, id, body) ]_vars

\* C19 witness: a create of a booking was refused for its body while the
\* catalog holds a device and an auditory and no booking is stored.
C19_Witness ==
    /\ IsResponse("POST", 400)
    /\ \E p \in reply.problem : p.detail = "validation failed"
    /\ devices # {} /\ auditories # {} /\ bookings = {}

\* C20: a PUT /api/devices/:id or PUT /api/auditories/:id for an id that
\* names no row is answered 404 and leaves the store unchanged.
C20_MissingCatalogRow404 ==
    [][ /\ \A id \in DeviceIdInputs, body \in DeviceUpdateBodies :
              (DeviceUpdate(id, body) /\ \A d \in devices : d.id # id)
              => /\ IsResponse("PUT /api/devices", 404)'
                 /\ devices' = devices /\ auditories' = auditories
                 /\ bookings' = bookings
        /\ \A id \in AuditoryIdInputs, body \in AuditoryUpdateBodies :
              (AuditoryUpdate(id, body) /\ \A a \in auditories : a.id # id)
              => /\ IsResponse("PUT /api/auditories", 404)'
                 /\ devices' = devices /\ auditories' = auditories
                 /\ bookings' = bookings ]_vars

---------------------------------------------------------------------------
(* DELETE by an id that names no row *)

\* The step answered 500 with the thrown message as the detail of the
\* problem document, and the store is unchanged.
GenericFailure(op, message) ==
    /\ IsResponse(op, 500)'
    /\ \A p \in reply'.problem : p.detail = message
    /\ reply'.problem # {}
    /\ devices' = devices /\ auditories' = auditories
    /\ bookings' = bookings /\ nextId' = nextId

---------------------------------------------------------------------------
(* GET /api/health *)

\* C22: GET /api/health answers 200 with {ok: true} whenever the store
\* answers the ping and 503 with a problem document whenever the ping fails;
\* no answer carries {ok: false}, and the store is unchanged.
C22_HealthFollowsPing ==
    [][ \A answers \in BOOLEAN :
          HealthPing(answers) =>
            /\ IF answers
               THEN /\ IsResponse("GET /api/health", 200)'
                    /\ reply'.body = {[ok |-> TRUE]}
                    /\ reply'.problem = {}
               ELSE /\ IsResponse("GET /api/health", 503)'
                    /\ reply'.body = {}
                    /\ \E p \in reply'.problem :
                          /\ reply'.problem = {p}
                          /\ p.status = 503
                          /\ {"type", "title", "detail", "instance"} \subseteq DOMAIN p
            /\ [ok |-> FALSE] \notin reply'.body
            /\ devices' = devices /\ auditories' = auditories
            /\ bookings' = bookings /\ nextId' = nextId /\ req' = req ]_vars

\* C22 witness: the health probe was answered 503 while the store holds a
\* booking.
C22_Witness ==
    /\ IsResponse("GET /api/health", 503)
    /\ bookings # {}

---------------------------------------------------------------------------
(* Names and capacities of the catalog *)

\* Every stored device and auditory has a non-empty name, and every stored
\* auditory has an integer capacity of at least 0.
CatalogValuesValid ==
    /\ \A d \in devices : IsString(d.name) /\ d.name # ""
    /\ \A a \in auditories :
          IsString(a.name) /\ a.name # "" /\ a.capacity \in Nat

\* The body carries an empty name, or a capacity below zero.
WouldStoreInvalid(body) ==
    \/ body.name = ""
    \/ "capacity" \in DOMAIN body /\ body.capacity <= NegativeNumber

\* The answer is 400 and no row, counter or pending request changed.
Refused400(op) ==
    /\ IsResponse(op, 400)'
    /\ reply'.problem # {}
    /\ devices' = devices /\ auditories' = auditories
    /\ bookings' = bookings /\ nextId' = nextId /\ req' = req

\* C23: after any sequence of device and auditory create and update
\* requests every stored device and auditory has a non-empty name and every
\* stored auditory an integer capacity >= 0; a request that would store an
\* empty name or a negative capacity is answered 400 and changes nothing.
C23_CatalogValuesStayValid ==
    /\ CatalogValuesValid
    /\ [][ /\ CatalogValuesValid'
           /\ \A body \in RawDeviceBodies :
                 (WouldStoreInvalid(body) /\ PostDeviceRoute(body))
                     => Refused400("POST /api/devices")
           /\ \A body \in RawAuditoryBodies :
                 (WouldStoreInvalid(body) /\ PostAuditoryRoute(body))
                     => Refused400("POST /api/auditories")
           /\ \A id \in DeviceIdInputs, body \in RawDeviceUpdateBodies :
                 (WouldStoreInvalid(body) /\ PutDeviceRoute(id, body))
                     => Refused400("PUT /api/devices")
           /\ \A id \in AuditoryIdInputs, body \in RawAuditoryUpdateBodies :
                 (WouldStoreInvalid(body) /\ PutAuditoryRoute(id, body))
                     => Refused400("PUT /api/auditories") ]_vars

\* C23 witness: an auditory update was refused with 400 while devices and
\* auditories are stored, one of them with an updated capacity.
C23_Witness ==
    /\ IsResponse("PUT /api/auditories", 400)
    /\ devices # {}
    /\ \E a \in auditories : a.capacity = 40

---------------------------------------------------------------------------
(* `now` within one request *)

\* The request in slot s is past its future-time check and not yet answered.
Pending(s, op) == req[s].op = op /\ req[s].pc # "idle"

\* C24: within one create or one update request `now` is sampled exactly
\* once: the instant the future-time check compared endTime against is the
\* bound of the conflict query, even when the clock advances between the
\* two steps.
C24_NowSampledOnce ==
    [][ \A s \in PutSlots :
          \* a request passes the future-time check at the instant of its
          \* start, and that instant is its `now`
          /\ (req[s].pc = "idle" /\ req'[s].pc # "idle")
                => /\ req'[s].now = clock
                   /\ ~DenotesInstantAtOrBefore(req'[s].endTime, req'[s].now)
          \* no later step of the request changes it
          /\ (req[s].pc # "idle" /\ req'[s].pc # "idle")
                => req'[s].now = req[s].now
          \* the conflict query is bounded by it, whatever the clock shows
          /\ (Pending(s, "POST") /\ CreateFindFirst(s)) =>
                (IsResponse("POST", 409)' <=>
                    \E b \in bookings : /\ b.auditoryId = req[s].auditoryId
                                        /\ b.endTime > req[s].now)
          /\ (Pending(s, "PUT") /\ UpdateFindFirst(s)) =>
                (IsResponse("PUT", 409)' <=>
                    \E b \in bookings : /\ b.auditoryId = req[s].targetAuditoryId
                                        /\ b.endTime > req[s].now
                                        /\ b.id # req[s].id) ]_vars

\* C24 witness: a create was answered 409 although, by the time of the
\* conflict query, the clock had passed the end of every stored booking.
C24_Witness ==
    /\ IsResponse("POST", 409)
    /\ bookings # {}
    /\ \A b \in bookings : b.endTime <= clock

---------------------------------------------------------------------------
(* The order of the booking checks *)

\* The auditory holds a booking that is active at instant now.
Busy(auditoryId, now) ==
    \E b \in bookings : b.auditoryId = auditoryId /\ b.endTime > now

\* C25: the booking checks run in a fixed order and the first failing one
\* decides: a create with endTime <= now for an auditory that has an active
\* booking is answered 400, not 409, and no conflict query follows; an update
\* of a nonexistent id with a future endTime passes the future-time check
\* unanswered, its lookup answers 404, and no conflict query (so no 409)
\* follows, even if the named auditory is busy.
C25_FirstFailingCheckDecides ==
    [][ \A s \in PutSlots :
          /\ WhenPostStarts(s, LAMBDA body :
                ( /\ DenotesInstantAtOrBefore(body.endTime, clock)
                  /\ Busy(body.auditoryId, clock) )
                => ( /\ IsResponse("POST", 400)'
                     /\ req'[s].pc = "idle"
                     /\ bookings' = bookings ))
          /\ WhenPutStarts(s, LAMBDA id, body :
                ( /\ ~NamesBooking(id)
                  /\ DenotesInstantAfter(body.endTime, clock) )
                => ( /\ reply'.status = 0
                     /\ req'[s].pc = "findUnique"
                     /\ bookings' = bookings ))
          /\ ( /\ Pending(s, "PUT")
               /\ UpdateFindUnique(s)
               /\ ~NamesBooking(req[s].id) )
                => ( /\ IsResponse("PUT", 404)'
                     /\ req'[s].pc = "idle"
                     /\ bookings' = bookings )
          \* a conflict query of an update runs only after a lookup that
          \* found the booking
          /\ (Pending(s, "PUT") /\ req'[s].pc = "findFirst" /\ req[s].pc # "findFirst")
                => (req[s].pc = "findUnique" /\ NamesBooking(req[s].id)) ]_vars

\* C25 witness: an update naming no booking was answered 404 while an
\* auditory is busy and the booking that keeps it busy is the only one.
C25_Witness ==
    /\ IsResponse("PUT", 404)
    /\ Cardinality(bookings) = 1
    /\ \E b \in bookings : Busy(b.auditoryId, clock)

---------------------------------------------------------------------------
(* Expiry frees the auditory *)

\* The stored booking id blocks its auditory at the current instant.
Blocks(id) == \E b \in bookings : b.id = id /\ b.endTime > clock

\* The body names an existing device and auditory and a future instant.
Acceptable(body, now) ==
    /\ \E d \in devices : d.id = body.deviceId
    /\ \E a \in auditories : a.id = body.auditoryId
    /\ DenotesInstantAfter(body.endTime, now)

\* A create for a free auditory, with an existing device and a future
\* endTime and no concurrent request, passes the future-time check and the
\* conflict query and is answered 201 with the row inserted.
FreeAuditoryAccepts(s) ==
    /\ WhenPostStarts(s, LAMBDA body :
          (Acceptable(body, clock) /\ ~Busy(body.auditoryId, clock))
          => ( /\ reply'.status = 0
               /\ req'[s].op = "POST" /\ req'[s].pc = "findFirst"
               /\ req'[s].now = clock ))
    \* nothing makes the auditory busy under a request in flight
    /\ (Pending(s, "POST") /\ ~Busy(req[s].auditoryId, req[s].now))
          => ~Busy(req[s].auditoryId, req[s].now)'
    /\ ( /\ Pending(s, "POST")
         /\ ~Busy(req[s].auditoryId, req[s].now)
         /\ Acceptable(RequestBody(req[s]), req[s].now) )
          => /\ CreateFindFirst(s) =>
                  (reply'.status = 0 /\ req'[s].pc = "create")
             /\ CreateInsert(s) => Created(s, clock)

\* C26: with an advancing clock every booking eventually stops blocking its
\* auditory; and as soon as now >= endTime for every booking of an auditory
\* (endTime == now included), a create for that auditory with an existing
\* device, a future endTime and no concurrent request passes the future-time
\* check and the conflict query and is answered 201 with the row inserted.
C26_ExpiryFreesAuditory ==
    /\ \A id \in BookingIds : Blocks(id) ~> ~Blocks(id)
    /\ [][ \A s \in PutSlots : FreeAuditoryAccepts(s) ]_vars

\* C26 witness: a create was answered 201 for an auditory that holds another
\* booking, which had ended by the time the new one started.
C26_Witness ==
    /\ IsResponse("POST", 201)
    /\ \E e \in reply.body : \E b \in bookings :
          /\ b.id # e.id
          /\ b.auditoryId = e.auditoryId
          /\ b.endTime <= e.startTime

---------------------------------------------------------------------------
(* Deleting frees the auditory *)

\* The stored booking id is active and no other booking of its auditory is.
OnlyActiveOfItsAuditory(id) ==
    \E b \in bookings :
        /\ b.id = id /\ b.endTime > clock
        /\ \A c \in bookings :
              (c.auditoryId = b.auditoryId /\ c.endTime > clock) => c = b

\* No booking of the auditory of stored booking id is active after the step.
AuditoryFreeAfter(id) ==
    \A b \in bookings :
        b.id = id =>
          \A c \in bookings' : c.auditoryId = b.auditoryId => c.endTime <= clock'

\* C27: deleting the only active booking of an auditory is answered 204 and
\* leaves the auditory free; with no concurrent request, a create for a free
\* auditory with an existing device and a future endTime is answered 201;
\* and a create is answered 409 only when a booking of its auditory has
\* endTime > now, so expired bookings left in the store never cause a 409.
C27_DeleteFreesAuditory ==
    [][ \A s \in PutSlots :
          /\ \A id \in IdInputs :
                (OnlyActiveOfItsAuditory(id) /\ BookingDelete(id))
                => (IsResponse("DELETE", 204)' /\ AuditoryFreeAfter(id))
          /\ FreeAuditoryAccepts(s)
          /\ ( /\ Pending(s, "POST")
               /\ CreateFindFirst(s)
               /\ \A b \in bookings :
                     b.auditoryId = req[s].auditoryId => b.endTime <= req[s].now )
                => reply'.status # 409 ]_vars

\* C27 witness: at instant 0, when every booking ever stored is still
\* active, a create was answered 201 after an earlier booking was deleted.
C27_Witness ==
    /\ IsResponse("POST", 201)
    /\ clock = 0
    /\ \E e \in reply.body : e.id > Cardinality(bookings)

---------------------------------------------------------------------------
(* An update keeps the set of rows *)

\* The ids of the stored bookings.
StoredIds == { b.id : b \in bookings }

\* C28: PUT /api/bookings/:id never adds or removes a booking row: every
\* step of an update leaves the set of booking ids as it was, and when a
\* DELETE of the same id ran between the update's lookup and its write, the
\* write changes nothing: the deleted booking is not recreated and the
\* answer is not a success.
C28_UpdateKeepsRowSet ==
    [][ \A s \in PutSlots :
          \* the step that starts an update (it leaves the request in the
          \* slot, or answers it at once)
          /\ (req[s].pc = "idle" /\ (req'[s].op = "PUT" \/ reply'.op = "PUT"))
                => StoredIds' = StoredIds
          /\ ( /\ Pending(s, "PUT")
               /\ UpdateFindUnique(s) \/ UpdateFindFirst(s) \/ UpdateWrite(s) )
                => StoredIds' = StoredIds
          /\ ( /\ Pending(s, "PUT")
               /\ req[s].pc # "findUnique"
               /\ ~NamesBooking(req[s].id)
               /\ UpdateFindFirst(s) \/ UpdateWrite(s) )
                => ( /\ bookings' = bookings
                     /\ reply'.status # 200
                     /\ req[s].pc = "update" => IsResponse("PUT", 500)' ) ]_vars

\* C28 witness: the write of an update found its booking gone (a DELETE ran
\* after the lookup) and another booking is still stored.
C28_Witness ==
    /\ IsResponse("PUT", 500)
    /\ \E p \in reply.problem : p.detail = "record to update not found"
    /\ bookings # {}

---------------------------------------------------------------------------
(* The page: room status *)

\* The loaded list is the store as it is now.
ListIsCurrent ==
    { ui.bookings[i] : i \in DOMAIN ui.bookings } = { ToJSON(Expand(b)) : b \in bookings }

\* C29: checkStatus reports an auditory as busy if and only if the loaded
\* bookings list contains a booking for that auditory with endTime strictly
\* after the current time, which is when the conflict query of a create
\* finds a booking among the same rows (the store, while the list is
\* current).
C29_StatusAgreesWithConflictQuery ==
    \A a \in AuditoryRows :
        LET status == checkStatus(ui.bookings, a.id, clock)
        IN /\ status.busy \in BOOLEAN
           /\ status.busy <=>
                 \E i \in DOMAIN ui.bookings :
                     /\ ui.bookings[i].auditoryId = a.id
                     /\ ui.bookings[i].endTime \in DOMAIN Instant
                     /\ Instant[ui.bookings[i].endTime] > clock
           /\ ListIsCurrent => (status.busy <=> ActiveBookings(a.id, clock) # {})

\* C29 witness: the loaded list is current and holds a booking that ends
\* at this very instant, whose room is shown free, and a booking that ends
\* later, whose room is shown busy.
C29_Witness ==
    /\ ListIsCurrent
    /\ \E i, j \in DOMAIN ui.bookings :
          /\ NewDate(ui.bookings[i].endTime) = clock
          /\ ~checkStatus(ui.bookings, ui.bookings[i].auditoryId, clock).busy
          /\ NewDate(ui.bookings[j].endTime) > clock
          /\ checkStatus(ui.bookings, ui.bookings[j].auditoryId, clock).busy

---------------------------------------------------------------------------
(* The page: submitting a booking *)

\* The displayed list is ordered by startTime, latest first.
LatestFirst(list) ==
    \A i, j \in DOMAIN list :
        i < j => NewDate(list[i].startTime) >= NewDate(list[j].startTime)

\* The step gives the answer of the POST /api/bookings of handleBooking.
SubmissionAnswered == reply'.op = "POST" /\ reply'.status # 0

\* C30: a booking submission that the server rejects (any non-2xx answer)
\* leaves the displayed bookings list and the booking form unchanged; a
\* submission the server accepts prepends exactly the returned booking to
\* the displayed list and resets the form, so a list ordered by startTime
\* descending stays so ordered.
C30_SubmissionUpdatesList ==
    [][ SubmissionAnswered =>
          /\ reply'.status \notin 200..299 =>
                (ui'.bookings = ui.bookings /\ ui'.bookingForm = ui.bookingForm)
          /\ reply'.status \in 200..299 =>
                /\ \E row \in reply'.body :
                      ui'.bookings = <<ToJSON(row)>> \o ui.bookings
                /\ ui'.bookingForm = EmptyForm
                /\ LatestFirst(ui.bookings) => LatestFirst(ui'.bookings) ]_vars

===========================================================================
